---- MODULE Spec2Model ----
(***************************************************************************)
(* Model of the Dockerflow health-check engine                             *)
(* (src/src/dockerflow/checks/registry.py): run_checks, run_checks_async,  *)
(* _run_check_async, _build_results_payload, and level_to_text.            *)
(***************************************************************************)
EXTENDS Integers, Sequences, FiniteSets, TLC

\* ------------------------------------------------------------------------
\* Bounds of the model
\* ------------------------------------------------------------------------
MaxChecks == 2

\* ------------------------------------------------------------------------
\* Severity levels and level_to_text (messages.py)
\* ------------------------------------------------------------------------
WARNING == 30
ERROR == 40

STATUSES ==
    [l \in {0, 10, 20, 30, 40, 50} |->
        CASE l = 0  -> "ok"
          [] l = 10 -> "debug"
          [] l = 20 -> "info"
          [] l = 30 -> "warning"
          [] l = 40 -> "error"
          [] l = 50 -> "critical"]

\* Variant: a level without a label reads as "ok".
level_to_text_ok(level) ==
    IF level \in DOMAIN STATUSES THEN STATUSES[level] ELSE "ok"

level_to_text(level) ==
    IF level \in DOMAIN STATUSES THEN STATUSES[level] ELSE "unknown"

\* ------------------------------------------------------------------------
\* Input domains: names, message ids, messages, check functions
\* ------------------------------------------------------------------------
Names == {"n1", "n2"}
Ids == {"a", "b"}

\* The CheckMessage objects the checks return: an Error and a message of a
\* level STATUSES does not map, sharing an id with different texts, and a
\* Warning under another id.
AnError   == [id |-> "a", level |-> ERROR,   msg |-> "t1"]
AnUnknown == [id |-> "a", level |-> 25,      msg |-> "t2"]
AWarning  == [id |-> "b", level |-> WARNING, msg |-> "t1"]

\* What the body of a check function does when it is run: it returns a list
\* of messages, raises, or never returns.  A plain function that never
\* returns keeps its thread; a coroutine function that never returns stays
\* suspended in an await and leaves the event loop free.
Returns(errors) == [tag |-> "return", errors |-> errors]
Raises == [tag |-> "raise", errors |-> <<>>]
Hangs  == [tag |-> "hang",  errors |-> <<>>]

\* A check function: `partials` is the number of functools.partial objects
\* wrapped around the underlying function, `coro` says whether the
\* underlying function is a coroutine function (async def).
Fn(partials, coro, body) ==
    [partials |-> partials, coro |-> coro, body |-> body]

\* The check functions the pairs are drawn from: plain functions, a
\* partial of a plain function, coroutine functions and a partial of a
\* coroutine function.
CheckFns ==
    { Fn(0, FALSE, b) :
        b \in { Returns(<<>>), Returns(<<AnError>>),
                Returns(<<AWarning, AnError>>),
                Returns(<<AnError, AnUnknown>>), Raises, Hangs } }
        \cup { Fn(1, FALSE, Returns(<<AWarning>>)) }
        \cup { Fn(0, TRUE, b) : b \in { Returns(<<AnUnknown>>), Raises, Hangs } }
        \cup { Fn(1, TRUE, Returns(<<AnError>>)) }

SeqsUpTo(S, n) == UNION { [1..k -> S] : k \in 0..n }

CheckPairs == { [name |-> n, fn |-> f] : n \in Names, f \in CheckFns }

\* ------------------------------------------------------------------------
\* _iscoroutinefunction_or_partial
\* ------------------------------------------------------------------------
\* Variant: inspect.iscoroutinefunction on the object itself, without
\* unwrapping functools.partial.
IsCoroutineFunction_nounwrap(obj) == obj.partials = 0 /\ obj.coro

RECURSIVE _iscoroutinefunction_or_partial(_)
_iscoroutinefunction_or_partial(obj) ==
    IF obj.partials > 0
      THEN _iscoroutinefunction_or_partial([obj EXCEPT !.partials = @ - 1])
      ELSE obj.coro

\* ------------------------------------------------------------------------
\* _build_results_payload
\* ------------------------------------------------------------------------
Max(a, b) == IF a >= b THEN a ELSE b

\* max([0] + [e.level for e in errors])
RECURSIVE MaxLevel(_)
MaxLevel(errors) ==
    IF errors = <<>> THEN 0
    ELSE Max(Head(errors).level, MaxLevel(Tail(errors)))

\* Variant: no message is filtered out.
NotSilenced_none(errors, silenced) == errors

\* Variant: the filter keeps the silenced messages instead.
NotSilenced_inverted(errors, silenced) ==
    SelectSeq(errors, LAMBDA e : e.id \in silenced)

\* [e for e in errors if e.id not in silenced_check_ids]
NotSilenced(errors, silenced) ==
    SelectSeq(errors, LAMBDA e : e.id \notin silenced)

\* m[k] = v on a dict modelled as a function
DictSet(m, k, v) ==
    [x \in DOMAIN m \cup {k} |-> IF x = k THEN v ELSE m[x]]

EmptyDict == [x \in {} |-> 0]

\* Variant: the first message of an id keeps its entry.
RECURSIVE MessagesDict_first(_, _)
MessagesDict_first(errors, acc) ==
    IF errors = <<>> THEN acc
    ELSE MessagesDict_first(Tail(errors),
            IF Head(errors).id \in DOMAIN acc THEN acc
            ELSE DictSet(acc, Head(errors).id, Head(errors).msg))

\* {e.id: e.msg for e in errors}: later entries replace earlier ones
RECURSIVE MessagesDict(_, _)
MessagesDict(errors, acc) ==
    IF errors = <<>> THEN acc
    ELSE MessagesDict(Tail(errors),
                      DictSet(acc, Head(errors).id, Head(errors).msg))

\* The log records of one check's messages, in order:
\* logger.log(error.level, "%s: %s", error.id, error.msg)
LogRecords(errors) ==
    [k \in 1..Len(errors) |->
        [level |-> errors[k].level, id |-> errors[k].id, msg |-> errors[k].msg]]

\* Variant: the level of the first message instead of the maximum.
CheckLevel_first(errors) ==
    IF errors = <<>> THEN 0 ELSE Max(0, Head(errors).level)

\* level = max([0] + [e.level for e in errors])
CheckLevel(errors) == MaxLevel(errors)

\* Variant: the detail's status is not derived from its level.
Detail_unlabelled(errors, level) ==
    [status   |-> "unknown",
     level    |-> level,
     messages |-> MessagesDict(errors, EmptyDict)]

\* detail = {"status": ..., "level": level, "messages": {...}}
Detail(errors, level) ==
    [status   |-> level_to_text(level),
     level    |-> level,
     messages |-> MessagesDict(errors, EmptyDict)]

\* Variant: a name keeps the status of its first pair.
NextStatuses_first(statuses, name, level) ==
    IF name \in DOMAIN statuses THEN statuses
    ELSE DictSet(statuses, name, level_to_text(level))

\* statuses[name] = level_to_text(level)
NextStatuses(statuses, name, level) ==
    DictSet(statuses, name, level_to_text(level))

\* Variant: the level of the check processed last instead of the maximum.
NextMaxLevel_last(max_level, level) == level

\* max_level = max(max_level, level)
NextMaxLevel(max_level, level) == Max(max_level, level)

\* Variant: the detail is recorded whatever the level.
NextDetails_always(details, name, level, detail) ==
    DictSet(details, name, detail)

\* if level > 0: details[name] = detail
NextDetails(details, name, level, detail) ==
    IF level > 0 THEN DictSet(details, name, detail) ELSE details

\* Variant: the messages are logged after the silenced ones are filtered out.
PayloadStep_logfiltered(acc, r, silenced) ==
    IF acc.raised \/ r.coroutine
      THEN [acc EXCEPT !.raised = TRUE]
      ELSE
        LET errors == NotSilenced(r.errors, silenced)
            level  == CheckLevel(errors)
            detail == Detail(errors, level)
        IN  [raised   |-> FALSE,
             details  |-> NextDetails(acc.details, r.name, level, detail),
             statuses |-> NextStatuses(acc.statuses, r.name, level),
             level    |-> NextMaxLevel(acc.level, level),
             log      |-> acc.log \o LogRecords(errors)]

\* One iteration of the loop over checks_results; `acc` holds details,
\* statuses, max_level and the log written so far.  A result that is a
\* coroutine object (an async check called without await) is not iterable:
\* the loop raises TypeError.
PayloadStep(acc, r, silenced) ==
    IF acc.raised \/ r.coroutine
      THEN [acc EXCEPT !.raised = TRUE]
      ELSE
        LET errors == NotSilenced(r.errors, silenced)
            level  == CheckLevel(errors)
            detail == Detail(errors, level)
        IN  [raised   |-> FALSE,
             details  |-> NextDetails(acc.details, r.name, level, detail),
             statuses |-> NextStatuses(acc.statuses, r.name, level),
             level    |-> NextMaxLevel(acc.level, level),
             log      |-> acc.log \o LogRecords(r.errors)]

RECURSIVE PayloadLoop(_, _, _)
PayloadLoop(acc, checks_results, silenced) ==
    IF checks_results = <<>> THEN acc
    ELSE PayloadLoop(PayloadStep(acc, Head(checks_results), silenced),
                     Tail(checks_results), silenced)

_build_results_payload(checks_results, silenced) ==
    PayloadLoop([raised |-> FALSE, details |-> EmptyDict,
                 statuses |-> EmptyDict, level |-> 0, log |-> <<>>],
                checks_results, silenced)

\* ------------------------------------------------------------------------
\* State
\* ------------------------------------------------------------------------
VARIABLES
    checks,              \* the (name, check) pairs given to the engine
    silenced_check_ids,  \* the silenced ids (None is normalised to empty)
    mode,                \* "sync": run_checks, "async": run_checks_async
    pc,                  \* "start", "running", "awaiting", "done", "raised"
    st,                  \* per check: "idle", "scheduled", "running",
                         \*            "returned", "raised"
    where,               \* per check: "none", "caller", "loop", "executor"
    out,                 \* per check: the (name, errors) pair it produced
    started,             \* indices of the checks in the order they started
    finished,            \* indices of the checks in the order they completed
    result,              \* the ChecksResults returned to the caller
    log,                 \* records written by logger.log, in order
    loop_blocked,        \* the event loop thread is stuck in a blocking call
    history,             \* the engine calls completed before this one
    _REGISTERED_CHECKS,  \* the registry: check name -> registered wrapper
    returned,            \* what the last registry call handed to its caller
    ops,                 \* the registry calls made so far, in order
    response,            \* the heartbeat response: status code and payload
    signals,             \* the heartbeat signals sent, in order
    comparison,          \* two check messages and the outcome of a == b
    retired,             \* the dict objects clear_checks() has replaced
    held,                \* a mapping some caller got from get_checks()
    framework,           \* whose request hooks run: "django", "flask", "sanic"
    requests,            \* the requests received, in order of arrival
    request_id_context,  \* per worker thread: the ContextVar's value
    summary              \* the request.summary records emitted, in order

\* The state of the registry, of the heartbeat views and of the message
\* model: the engine reads and writes none of it.
web == <<framework, requests, request_id_context, summary>>

aside == <<_REGISTERED_CHECKS, returned, ops, response, signals,
           comparison, retired, held, web>>

vars == <<checks, silenced_check_ids, mode, pc, st, where, out, started,
          finished, result, log, loop_blocked, history, aside>>

inputs == <<checks, silenced_check_ids, mode, history, aside>>

NoResult == [details |-> EmptyDict, statuses |-> EmptyDict, level |-> -1]

N == Len(checks)

\* The state in which the engine is entered with the pairs `cs`.
Entered(cs) ==
    /\ pc = "start"
    /\ st = [k \in 1..Len(cs) |-> "idle"]
    /\ where = [k \in 1..Len(cs) |-> "none"]
    /\ out = [k \in 1..Len(cs) |->
                [name |-> cs[k].name, errors |-> <<>>, coroutine |-> FALSE]]
    /\ started = <<>>
    /\ finished = <<>>
    /\ result = NoResult

\* The registry is empty when the module is imported
\* (_REGISTERED_CHECKS = {}), no view has answered, no signal was sent and
\* no message was compared.
Nothing == [kind |-> "none"]

\* The worker threads that handle requests, one request at a time each.
Workers == {1, 2}

\* No request was received: request_id_context has its default, None, in
\* every thread.
WebIdle ==
    /\ requests = <<>>
    /\ request_id_context = [w \in Workers |-> Nothing]
    /\ summary = <<>>

AsideInit ==
    /\ _REGISTERED_CHECKS = EmptyDict
    /\ returned = Nothing
    /\ ops = <<>>
    /\ response = Nothing
    /\ signals = <<>>
    /\ comparison = Nothing
    /\ retired = <<>>
    /\ held = Nothing
    /\ framework = "none"
    /\ WebIdle

Init ==
    /\ checks \in SeqsUpTo(CheckPairs, MaxChecks)
    /\ silenced_check_ids \in SUBSET Ids
    /\ mode \in {"sync", "async"}
    /\ Entered(checks)
    /\ log = <<>>
    /\ loop_blocked = FALSE
    /\ history = <<>>
    /\ AsideInit

\* ------------------------------------------------------------------------
\* Calling a check function
\* ------------------------------------------------------------------------
\* Variant: a check that raises is caught and counts as returning.
Outcome_caught(k) ==
    LET fn == checks[k].fn
        t  == IF fn.body.tag = "raise" THEN "return" ELSE fn.body.tag
    IN  IF where[k] \in {"caller", "executor"}
          THEN IF fn.coro THEN "coroutine" ELSE t
          ELSE IF fn.coro THEN t
               ELSE IF fn.body.tag = "return" THEN "raise" ELSE t

\* Variant: a deadline turns a check that never returns into one that raises.
Outcome_deadline(k) ==
    LET fn == checks[k].fn
        t  == IF fn.body.tag = "hang" THEN "raise" ELSE fn.body.tag
    IN  IF where[k] \in {"caller", "executor"}
          THEN IF fn.coro THEN "coroutine" ELSE t
          ELSE IF fn.coro THEN t
               ELSE IF fn.body.tag = "return" THEN "raise" ELSE t

\* What a finished invocation of checks[k] hands back.  A plain call
\* (check() in run_checks, or the executor worker calling check_fn) of a
\* coroutine function does not run its body: it returns a coroutine object.
\* `await check_fn()` of a plain function runs the body on the loop thread
\* and then fails to await the list it returned (TypeError).
Outcome(k) ==
    LET fn == checks[k].fn
    IN  IF where[k] \in {"caller", "executor"}
          THEN IF fn.coro THEN "coroutine" ELSE fn.body.tag
          ELSE IF fn.coro THEN fn.body.tag
               ELSE IF fn.body.tag = "return" THEN "raise" ELSE fn.body.tag

\* Variant: the executor's future is handed on without being awaited.
Produced_unawaited(k) ==
    IF where[k] = "executor" \/ Outcome(k) = "coroutine"
      THEN [name |-> checks[k].name, errors |-> <<>>, coroutine |-> TRUE]
      ELSE [name |-> checks[k].name, errors |-> checks[k].fn.body.errors,
            coroutine |-> FALSE]

Produced(k) ==
    IF Outcome(k) = "coroutine"
      THEN [name |-> checks[k].name, errors |-> <<>>, coroutine |-> TRUE]
      ELSE [name |-> checks[k].name, errors |-> checks[k].fn.body.errors,
            coroutine |-> FALSE]

\* Variant: the join ends as soon as one check has returned.
AnyReturned == \E k \in 1..N : st[k] = "returned"

AllReturned == \A k \in 1..N : st[k] = "returned"

\* Variant: a message reported by an earlier run is not reported again.
BuildAndReturn_once(results) ==
    LET fresh == [k \in 1..Len(results) |->
                    [results[k] EXCEPT !.errors =
                        SelectSeq(@, LAMBDA e :
                                        \A i \in 1..Len(log) : log[i] # e)]]
        p == _build_results_payload(fresh, silenced_check_ids)
    IN  /\ log' = log \o p.log
        /\ IF p.raised
             THEN /\ pc' = "raised"
                  /\ result' = result
             ELSE /\ pc' = "done"
                  /\ result' = [details |-> p.details,
                                statuses |-> p.statuses,
                                level |-> p.level]

\* Build the payload from `results`, write its log records, and return the
\* ChecksResults or raise.
BuildAndReturn(results) ==
    LET p == _build_results_payload(results, silenced_check_ids)
    IN  /\ log' = log \o p.log
        /\ IF p.raised
             THEN /\ pc' = "raised"
                  /\ result' = result
             ELSE /\ pc' = "done"
                  /\ result' = [details |-> p.details,
                                statuses |-> p.statuses,
                                level |-> p.level]

\* ------------------------------------------------------------------------
\* run_checks
\* ------------------------------------------------------------------------
\* Variant: every check is started without waiting for the earlier ones.
RunChecksCall_eager(k) ==
    /\ mode = "sync"
    /\ pc \in {"start", "running"}
    /\ st[k] = "idle"
    /\ pc' = "running"
    /\ st' = [st EXCEPT ![k] = "running"]
    /\ where' = [where EXCEPT ![k] = "caller"]
    /\ started' = Append(started, k)
    /\ UNCHANGED <<inputs, out, finished, result, log, loop_blocked>>

\* The list comprehension `[(name, check()) for name, check in checks]`
\* calls check k once every earlier check has returned.
RunChecksCall(k) ==
    /\ mode = "sync"
    /\ pc \in {"start", "running"}
    /\ st[k] = "idle"
    /\ \A j \in 1..(k - 1) : st[j] = "returned"
    /\ pc' = "running"
    /\ st' = [st EXCEPT ![k] = "running"]
    /\ where' = [where EXCEPT ![k] = "caller"]
    /\ started' = Append(started, k)
    /\ UNCHANGED <<inputs, out, finished, result, log, loop_blocked>>

\* check() returns its messages, or raises out of run_checks.  A check that
\* never returns leaves no step to take.
RunChecksReturn(k) ==
    /\ mode = "sync"
    /\ pc = "running"
    /\ st[k] = "running"
    /\ Outcome(k) # "hang"
    /\ finished' = Append(finished, k)
    /\ IF Outcome(k) = "raise"
         THEN /\ st' = [st EXCEPT ![k] = "raised"]
              /\ pc' = "raised"
              /\ out' = out
         ELSE /\ st' = [st EXCEPT ![k] = "returned"]
              /\ pc' = pc
              /\ out' = [out EXCEPT ![k] = Produced(k)]
    /\ UNCHANGED <<inputs, where, started, result, log, loop_blocked>>

\* `return _build_results_payload(results, silenced_check_ids)`
RunChecksBuild ==
    /\ mode = "sync"
    /\ pc \in {"start", "running"}
    /\ AllReturned
    /\ BuildAndReturn(out)
    /\ UNCHANGED <<inputs, st, where, out, started, finished, loop_blocked>>

\* ------------------------------------------------------------------------
\* run_checks_async
\* ------------------------------------------------------------------------
\* Variant: every check is called and awaited on the event loop.
RunsOn_loop(check_fn) == "loop"

\* Where _run_check_async runs check_fn: awaited on the event loop when it
\* is a coroutine function, else handed to loop.run_in_executor.
RunsOn(check_fn) ==
    IF _iscoroutinefunction_or_partial(check_fn) THEN "loop" ELSE "executor"

\* `asyncio.gather(*tasks)`: unpacking the generator creates one
\* _run_check_async coroutine per pair and gather schedules a task for each
\* of them, all before run_checks_async suspends in `await`.
Gather ==
    /\ mode = "async"
    /\ pc = "start"
    /\ pc' = "awaiting"
    /\ st' = [k \in 1..N |-> "scheduled"]
    /\ UNCHANGED <<inputs, where, out, started, finished, result, log,
                   loop_blocked>>

\* First step of task k, taken by the event loop in the order the tasks were
\* scheduled: _run_check_async starts check_fn where RunsOn says.  A plain
\* function called on the loop thread that never returns blocks the loop.
TaskStart(k) ==
    /\ mode = "async"
    /\ ~loop_blocked
    /\ st[k] = "scheduled"
    /\ \A j \in 1..(k - 1) : st[j] # "scheduled"
    /\ st' = [st EXCEPT ![k] = "running"]
    /\ where' = [where EXCEPT ![k] = RunsOn(checks[k].fn)]
    /\ started' = Append(started, k)
    /\ loop_blocked' = (/\ RunsOn(checks[k].fn) = "loop"
                        /\ ~checks[k].fn.coro
                        /\ checks[k].fn.body.tag = "hang")
    /\ UNCHANGED <<inputs, pc, out, finished, result, log>>

\* Task k completes: `return (name, errors)`, or the check's exception
\* leaves the task.  gather hands the first exception to run_checks_async,
\* which raises it to its caller; the other tasks are not cancelled.
TaskFinish(k) ==
    /\ mode = "async"
    /\ ~loop_blocked
    /\ st[k] = "running"
    /\ Outcome(k) # "hang"
    /\ finished' = Append(finished, k)
    /\ IF Outcome(k) = "raise"
         THEN /\ st' = [st EXCEPT ![k] = "raised"]
              /\ pc' = IF pc = "awaiting" THEN "raised" ELSE pc
              /\ out' = out
         ELSE /\ st' = [st EXCEPT ![k] = "returned"]
              /\ pc' = pc
              /\ out' = [out EXCEPT ![k] = Produced(k)]
    /\ UNCHANGED <<inputs, where, started, result, log, loop_blocked>>

\* Variant: the results in the order the checks completed.
GatherResults_completion(o, done_order) ==
    [i \in 1..Len(done_order) |-> o[done_order[i]]]

\* The list gather returns: one entry per awaitable, in the order the
\* awaitables were passed, whatever the order they completed in.
GatherResults(o, done_order) == o

\* Every task has returned: gather's future resolves, run_checks_async
\* resumes and returns _build_results_payload(results, silenced_check_ids).
GatherDone ==
    /\ mode = "async"
    /\ ~loop_blocked
    /\ pc = "awaiting"
    /\ AllReturned
    /\ BuildAndReturn(GatherResults(out, finished))
    /\ UNCHANGED <<inputs, st, where, out, started, finished, loop_blocked>>

Next ==
    \/ \E k \in 1..N : RunChecksCall(k)
    \/ \E k \in 1..N : RunChecksReturn(k)
    \/ RunChecksBuild
    \/ Gather
    \/ \E k \in 1..N : TaskStart(k)
    \/ \E k \in 1..N : TaskFinish(k)
    \/ GatherDone

Spec == Init /\ [][Next]_vars

\* The interpreter, the event loop and the executor's worker threads keep
\* taking the steps that are possible.
SpecFair == Spec /\ WF_vars(Next)

\* ------------------------------------------------------------------------
\* Two engine calls over the same plain (non-coroutine) checks
\* ------------------------------------------------------------------------
PlainPairs == { p \in CheckPairs : ~p.fn.coro }

InitBoth ==
    /\ checks \in SeqsUpTo(PlainPairs, MaxChecks)
    /\ silenced_check_ids \in SUBSET Ids
    /\ mode \in {"sync", "async"}
    /\ Entered(checks)
    /\ log = <<>>
    /\ loop_blocked = FALSE
    /\ history = <<>>
    /\ AsideInit

\* The caller got its answer (a ChecksResults or an exception) and calls
\* the engine again, through run_checks or run_checks_async, with the same
\* pairs and silenced ids.
NextCall(m) ==
    /\ pc \in {"done", "raised"}
    /\ ~loop_blocked
    /\ history = <<>>
    /\ history' = Append(history, [mode |-> mode, pc |-> pc, result |-> result])
    /\ mode' = m
    /\ pc' = "start"
    /\ st' = [k \in 1..N |-> "idle"]
    /\ where' = [k \in 1..N |-> "none"]
    /\ out' = [k \in 1..N |->
                 [name |-> checks[k].name, errors |-> <<>>, coroutine |-> FALSE]]
    /\ started' = <<>>
    /\ finished' = <<>>
    /\ result' = NoResult
    /\ UNCHANGED <<checks, silenced_check_ids, log, loop_blocked, aside>>

NextBoth ==
    \/ Next
    \/ \E m \in {"sync", "async"} : NextCall(m)

SpecBoth == InitBoth /\ [][NextBoth]_vars

\* ------------------------------------------------------------------------
\* Vocabulary of the properties
\* ------------------------------------------------------------------------
Returned == pc = "done"

Errs(k) == checks[k].fn.body.errors

NamesGiven == { checks[k].name : k \in 1..N }

NamedIdx(n) == { k \in 1..N : checks[k].name = n }

DistinctNames ==
    \A j, k \in 1..N : j # k => checks[j].name # checks[k].name

SetMax(S) == CHOOSE x \in S : \A y \in S : y <= x

\* Positions of the messages of check k whose id is not silenced
VisibleIdx(k) ==
    { i \in 1..Len(Errs(k)) : Errs(k)[i].id \notin silenced_check_ids }

\* Maximum of 0 and the levels of the non-silenced messages of check k
ExpectedLevel(k) ==
    SetMax({0} \cup { Errs(k)[i].level : i \in VisibleIdx(k) })

SilencedIn(k) ==
    \E i \in 1..Len(Errs(k)) : Errs(k)[i].id \in silenced_check_ids

AllSilenced(k) ==
    \A i \in 1..Len(Errs(k)) : Errs(k)[i].id \in silenced_check_ids

\* Check k is the last pair with its name / the last one with its name whose
\* level is above 0: the pair whose entry the output maps hold.
LastNamed(k) ==
    \A j \in (k + 1)..N : checks[j].name # checks[k].name

LastDetailed(k) ==
    /\ ExpectedLevel(k) > 0
    /\ \A j \in (k + 1)..N :
          checks[j].name = checks[k].name => ExpectedLevel(j) = 0

DetailsLevelMax ==
    result.level
        = SetMax({0} \cup { result.details[n].level : n \in DOMAIN result.details })

\* ------------------------------------------------------------------------
\* C1
\* ------------------------------------------------------------------------
\* C1 (as stated): every ChecksResults returned by run_checks or
\* run_checks_async, for any collection of pairs and any silenced ids, has
\* level = max(0, max of details[name].level over the names in details).
C1_LevelIsMaxOfDetails_AnyPairs == Returned => DetailsLevelMax

\* C1 (amended): the same, for pairs with pairwise distinct names.
C1_LevelIsMaxOfDetails == (Returned /\ DistinctNames) => DetailsLevelMax

C1_Witness ==
    /\ Returned
    /\ DistinctNames
    /\ N = 2
    /\ DOMAIN result.details = NamesGiven
    /\ result.details[checks[1].name].level > result.details[checks[2].name].level
    /\ result.level = result.details[checks[1].name].level

\* ------------------------------------------------------------------------
\* C2
\* ------------------------------------------------------------------------
\* C2: over pairs with pairwise distinct names, the keys of statuses are the
\* supplied names; a name is a key of details iff the maximum level of the
\* check's non-silenced messages is above 0; a check that returns no message
\* has status "ok" and no details entry.
C2_StatusesAndDetailsKeys ==
    (Returned /\ DistinctNames) =>
        /\ DOMAIN result.statuses = NamesGiven
        /\ \A k \in 1..N :
              /\ (checks[k].name \in DOMAIN result.details)
                    <=> (ExpectedLevel(k) > 0)
              /\ Errs(k) = <<>> =>
                    /\ result.statuses[checks[k].name] = "ok"
                    /\ checks[k].name \notin DOMAIN result.details

C2_Witness ==
    /\ Returned
    /\ DistinctNames
    /\ N = 2
    /\ Errs(1) = <<>>
    /\ ExpectedLevel(2) > 0
    /\ DOMAIN result.statuses = NamesGiven
    /\ DOMAIN result.details = {checks[2].name}

\* ------------------------------------------------------------------------
\* C3
\* ------------------------------------------------------------------------
\* C3: the level in a check's details entry is the maximum of 0 and the
\* levels of its non-silenced messages, its status is level_to_text of that
\* level, and its messages map has one entry id -> text for every distinct
\* id among the non-silenced messages.
C3_PerCheckLevelStatusMessages ==
    Returned =>
        \A k \in 1..N :
            /\ LastNamed(k) =>
                  result.statuses[checks[k].name]
                      = level_to_text(ExpectedLevel(k))
            /\ LastDetailed(k) =>
                  /\ checks[k].name \in DOMAIN result.details
                  /\ LET d == result.details[checks[k].name]
                     IN  /\ d.level = ExpectedLevel(k)
                         /\ d.status = level_to_text(ExpectedLevel(k))
                         /\ DOMAIN d.messages
                               = { Errs(k)[i].id : i \in VisibleIdx(k) }
                         /\ \A id \in DOMAIN d.messages :
                               \E i \in VisibleIdx(k) :
                                   /\ Errs(k)[i].id = id
                                   /\ Errs(k)[i].msg = d.messages[id]

C3_Witness ==
    /\ Returned
    /\ \E k \in 1..N :
          /\ LastDetailed(k)
          /\ VisibleIdx(k) = {1, 2}
          /\ Errs(k)[1].id # Errs(k)[2].id
          /\ Errs(k)[1].level < Errs(k)[2].level
          /\ result.details[checks[k].name].level = Errs(k)[2].level
          /\ Cardinality(DOMAIN result.details[checks[k].name].messages) = 2

\* ------------------------------------------------------------------------
\* C4
\* ------------------------------------------------------------------------
\* The aggregate of the same check results when nothing is silenced
Unsilenced == _build_results_payload(out, {})

\* C4: a silenced message contributes to no level and to no messages map; a
\* check whose messages are all silenced has status "ok" and no details
\* entry; a check none of whose message ids is silenced has the status,
\* level and messages it has when nothing is silenced.
C4_Silencing ==
    Returned =>
        /\ \A n \in DOMAIN result.details :
              DOMAIN result.details[n].messages \cap silenced_check_ids = {}
        /\ result.level = SetMax({0} \cup { ExpectedLevel(k) : k \in 1..N })
        /\ \A k \in 1..N :
              LastDetailed(k) =>
                  result.details[checks[k].name].level = ExpectedLevel(k)
        /\ \A n \in NamesGiven :
              (\A k \in NamedIdx(n) : AllSilenced(k)) =>
                  /\ result.statuses[n] = "ok"
                  /\ n \notin DOMAIN result.details
        /\ \A n \in NamesGiven :
              (\A k \in NamedIdx(n) : ~SilencedIn(k)) =>
                  /\ result.statuses[n] = Unsilenced.statuses[n]
                  /\ (n \in DOMAIN result.details)
                        <=> (n \in DOMAIN Unsilenced.details)
                  /\ n \in DOMAIN result.details =>
                        result.details[n] = Unsilenced.details[n]

C4_Witness ==
    /\ Returned
    /\ DistinctNames
    /\ N = 2
    /\ Errs(1) # <<>>
    /\ AllSilenced(1)
    /\ Errs(2) # <<>>
    /\ ~SilencedIn(2)
    /\ result.statuses[checks[1].name] = "ok"
    /\ DOMAIN result.details = {checks[2].name}
    /\ result.level = result.details[checks[2].name].level

\* ------------------------------------------------------------------------
\* C5
\* ------------------------------------------------------------------------
PlainOnly == \A k \in 1..N : ~checks[k].fn.coro

Completed == pc \in {"done", "raised"}

\* C5: for purely synchronous checks and any silenced ids, run_checks and
\* run_checks_async end the same way and return ChecksResults with
\* identical statuses, details and level.
C5_SyncAsyncSame ==
    (Completed /\ PlainOnly /\ history # <<>> /\ history[1].mode # mode) =>
        /\ history[1].pc = pc
        /\ history[1].result = result

C5_Witness ==
    /\ history # <<>>
    /\ history[1].mode = "sync"
    /\ history[1].pc = "done"
    /\ mode = "async"
    /\ Returned
    /\ N = 2
    /\ PlainOnly
    /\ finished = <<2, 1>>
    /\ result.level > 0
    /\ silenced_check_ids # {}
    /\ result = history[1].result

\* ------------------------------------------------------------------------
\* C6
\* ------------------------------------------------------------------------
\* The (name, errors) pairs of the supplied checks, in the order supplied
InputOrderResults ==
    [k \in 1..N |->
        [name |-> checks[k].name, errors |-> Errs(k), coroutine |-> FALSE]]

\* C6: the ChecksResults run_checks_async returns is the aggregate of the
\* checks' results taken in the order the pairs were supplied, whatever the
\* order the checks completed in.
C6_CompletionOrderIrrelevant ==
    (mode = "async" /\ Returned) =>
        LET p == _build_results_payload(InputOrderResults, silenced_check_ids)
        IN  result = [details |-> p.details, statuses |-> p.statuses,
                      level |-> p.level]

C6_Witness ==
    /\ mode = "async"
    /\ Returned
    /\ N = 2
    /\ finished = <<2, 1>>
    /\ checks[1].name = checks[2].name
    /\ ExpectedLevel(1) > ExpectedLevel(2)
    /\ ExpectedLevel(2) > 0
    /\ result.details[checks[1].name].level = ExpectedLevel(2)

\* ------------------------------------------------------------------------
\* C7
\* ------------------------------------------------------------------------
Range(f) == { f[i] : i \in DOMAIN f }

\* The engine's invocation of check k runs the body of the check: always in
\* run_checks_async, and in run_checks unless the check is a coroutine
\* function (whose plain call only makes a coroutine object).
BodyRuns(k) == mode = "async" \/ ~checks[k].fn.coro

RaisesWhenRun(k) == checks[k].fn.body.tag = "raise" /\ BodyRuns(k)

NeverReturns(k) == checks[k].fn.body.tag = "hang" /\ BodyRuns(k)

ReturnsMessages(k) == checks[k].fn.body.tag = "return" /\ BodyRuns(k)

\* C7: once a check function has raised, the engine call has raised to its
\* caller and returns no ChecksResults: the exception is not caught and not
\* turned into a status or a details entry.
C7_CheckExceptionPropagates ==
    \A k \in 1..N :
        (k \in Range(finished) /\ RaisesWhenRun(k)) =>
            /\ pc = "raised"
            /\ st[k] = "raised"
            /\ result = NoResult

C7_Witness ==
    /\ mode = "async"
    /\ N = 2
    /\ finished = <<1, 2>>
    /\ ReturnsMessages(1)
    /\ Errs(1) # <<>>
    /\ RaisesWhenRun(2)
    /\ pc = "raised"
    /\ result = NoResult

\* ------------------------------------------------------------------------
\* C8
\* ------------------------------------------------------------------------
\* C8: run_checks_async has scheduled every supplied check before it waits
\* and before any check starts, it returns only when every check has
\* returned, and what it returns covers every supplied name: the caller
\* never gets a partial aggregate.
C8_LaunchAllJoinAll ==
    mode = "async" =>
        /\ (pc = "awaiting" \/ started # <<>>) =>
              \A k \in 1..N : st[k] # "idle"
        /\ Returned =>
              /\ \A k \in 1..N : st[k] = "returned"
              /\ DOMAIN result.statuses = NamesGiven
        /\ result # NoResult => Returned

C8_Witness ==
    /\ mode = "async"
    /\ Returned
    /\ N = 2
    /\ DistinctNames
    /\ started = <<1, 2>>
    /\ finished = <<2, 1>>
    /\ DOMAIN result.statuses = NamesGiven
    /\ DOMAIN result.details = NamesGiven

\* ------------------------------------------------------------------------
\* C9
\* ------------------------------------------------------------------------
\* C9: in run_checks_async a check that is not a coroutine function
\* (directly or under functools.partial) runs on an executor worker and a
\* coroutine function is awaited on the event loop; the loop is never
\* blocked, so every asynchronous check that can return can take its next
\* step whatever the synchronous checks are doing.
C9_SyncChecksOffTheLoop ==
    mode = "async" =>
        /\ ~loop_blocked
        /\ \A k \in 1..N :
              /\ where[k] # "none" =>
                    where[k] = IF checks[k].fn.coro THEN "loop" ELSE "executor"
              /\ (checks[k].fn.coro /\ ~NeverReturns(k)) =>
                    /\ st[k] = "running" => ENABLED TaskFinish(k)
                    /\ (st[k] = "scheduled"
                          /\ \A j \in 1..(k - 1) : st[j] # "scheduled") =>
                              ENABLED TaskStart(k)

C9_Witness ==
    /\ mode = "async"
    /\ N = 2
    /\ ~checks[1].fn.coro
    /\ NeverReturns(1)
    /\ st[1] = "running"
    /\ where[1] = "executor"
    /\ checks[2].fn.coro
    /\ checks[2].fn.partials > 0
    /\ where[2] = "loop"
    /\ st[2] = "returned"

\* ------------------------------------------------------------------------
\* C10
\* ------------------------------------------------------------------------
\* C10 (as stated, first half): if any supplied check never returns, the
\* whole run_checks or run_checks_async call hangs and never completes;
\* stated here for a check that the engine has started.
C10_HangsWheneverACheckHangs ==
    (\E k \in 1..N : NeverReturns(k) /\ st[k] = "running") => ~Completed

\* C10 (amended): if any supplied check never returns, the call never
\* returns a ChecksResults, and it never completes at all unless a supplied
\* check raises; if every supplied check returns its messages, the call
\* terminates with a result.
C10_NoTimeoutNoCancellation ==
    /\ []((\E k \in 1..N : NeverReturns(k)) =>
            /\ ~Returned
            /\ (\A j \in 1..N : ~RaisesWhenRun(j)) => ~Completed)
    /\ <>((\A k \in 1..N : ReturnsMessages(k)) => Returned)

C10_Witness ==
    /\ mode = "sync"
    /\ N = 2
    /\ ReturnsMessages(1)
    /\ st[1] = "returned"
    /\ NeverReturns(2)
    /\ st[2] = "running"
    /\ pc = "running"
    /\ result = NoResult
    /\ ~ENABLED Next

\* ------------------------------------------------------------------------
\* Callables handed to the registry
\* ------------------------------------------------------------------------
MaxOps == 3

\* name=None, and the absence of a __name__ attribute
NoName == "None"

\* `def n(*args)` or `async def n(*args)`: `fn` names the underlying
\* function, `partials` counts the functools.partial objects around it,
\* `bound` holds the positional arguments they bind, innermost first.
Def(n, c) ==
    [__name__ |-> n, fn |-> n, coro |-> c, partials |-> 0, bound |-> <<>>]

\* Variant: the partial binds no argument.
Partial_unbound(func, args) ==
    [__name__ |-> NoName, fn |-> func.fn, coro |-> func.coro,
     partials |-> func.partials + 1, bound |-> func.bound]

\* functools.partial(func, *args): a partial object has no __name__.
Partial(func, args) ==
    [__name__ |-> NoName, fn |-> func.fn, coro |-> func.coro,
     partials |-> func.partials + 1, bound |-> func.bound \o args]

\* functools.wraps(wrapped)(obj): __name__ is copied when wrapped has one.
Wraps(wrapped, obj) ==
    IF wrapped.__name__ = NoName THEN obj
    ELSE [obj EXCEPT !.__name__ = wrapped.__name__]

F == Def("f", FALSE)
G == Def("g", TRUE)

\* A plain function, a coroutine function and a bare functools.partial of
\* the coroutine function.
Registrables == { F, G, Partial(G, <<"x">>) }

GivenNames == { NoName, "n1" }

BoundArgs == { <<>>, <<"y">> }

\* func(*args): a coroutine function hands back a coroutine object, which
\* yields the value once awaited.
CallFn(func, args) ==
    [raised |-> FALSE, coroutine |-> func.coro,
     value |-> [fn |-> func.fn, args |-> func.bound \o args]]

\* `await x`: a value that is not awaitable raises TypeError.
Await(x) ==
    IF x.coroutine THEN [x EXCEPT !.coroutine = FALSE]
    ELSE [x EXCEPT !.raised = TRUE]

\* ------------------------------------------------------------------------
\* register, register_partial, get_checks, clear_checks
\* ------------------------------------------------------------------------
\* decorated_function / decorated_function_asyc: the closure keeps func and
\* name, functools.wraps gives it func's __name__.
Wrapper(func, name) ==
    [kind |-> "wrapper", __name__ |-> func.__name__,
     async |-> _iscoroutinefunction_or_partial(func),
     func |-> func, name |-> name]

AttributeError == [kind |-> "raised", error |-> "AttributeError"]

\* Variant: an entry once made is kept (dict.setdefault).
Store_setdefault(reg, name, wrapper) ==
    IF name \in DOMAIN reg THEN reg ELSE DictSet(reg, name, wrapper)

\* _REGISTERED_CHECKS[name] = wrapper
Store(reg, name, wrapper) == DictSet(reg, name, wrapper)

\* register(func=None, name=None) on the registry `reg`: the registry
\* afterwards and the value returned (or the exception raised).
register(reg, func, name) ==
    IF func = Nothing
      THEN [reg |-> reg, ret |-> [kind |-> "decorator", name |-> name]]
      ELSE LET nm == IF name = NoName THEN func.__name__ ELSE name
           IN  IF nm = NoName
                 THEN [reg |-> reg, ret |-> AttributeError]
                 ELSE [reg |-> Store(reg, nm, Wrapper(func, nm)),
                       ret |-> Wrapper(func, nm)]

\* register_partial(func, *args, name=None)
register_partial(reg, func, args, name) ==
    LET nm == IF name = NoName THEN func.__name__ ELSE name
    IN  IF nm = NoName
          THEN [reg |-> reg, ret |-> AttributeError]
          ELSE register(reg, Wraps(func, Partial(func, args)), nm)

get_checks == _REGISTERED_CHECKS

\* Variant: the dict is emptied only when it holds a single entry.
Cleared_single(reg) ==
    IF Cardinality(DOMAIN reg) <= 1 THEN EmptyDict ELSE reg

\* _REGISTERED_CHECKS = dict()
Cleared(reg) == EmptyDict

\* Variant: clear_checks() empties the dict in place
\* (_REGISTERED_CHECKS.clear()), so no dict object is replaced.
Retire_inplace(objs, reg) == objs

\* `_REGISTERED_CHECKS = dict()` binds the global to a new dict object; the
\* object it was bound to is left as it is for whoever still refers to it.
Retire(objs, reg) == Append(objs, reg)

\* The dict object a call now binds _REGISTERED_CHECKS to: the objects are
\* numbered in the order they were made.
CurrentObject == Len(retired) + 1

\* What the mapping m, handed out by get_checks(), holds now.
Deref(m) ==
    IF m.obj = CurrentObject THEN _REGISTERED_CHECKS ELSE retired[m.obj]

\* Calling a registered wrapper with `args`, and awaiting what it hands back
\* when the wrapper is a coroutine function:
\* `return func(*args, **kwargs)` / `return await func(*args, **kwargs)`.
Invoke(w, args) ==
    IF w.async THEN Await(CallFn(w.func, args)) ELSE CallFn(w.func, args)

\* The variables of the engine, which the registry calls leave alone.
engine == <<checks, silenced_check_ids, mode, pc, st, where, out, started,
            finished, result, log, loop_blocked, history>>

\* No engine call is in progress.
EngineIdle ==
    /\ checks = <<>>
    /\ silenced_check_ids = {}
    /\ mode = "none"
    /\ Entered(checks)
    /\ log = <<>>
    /\ loop_blocked = FALSE
    /\ history = <<>>

InitRegistry ==
    /\ EngineIdle
    /\ AsideInit

\* One record of `ops`: the call, its arguments and what it returned.
Op(op, func, args, name, ret) ==
    [op |-> op, func |-> func, args |-> args, name |-> name, ret |-> ret]

\* Variant: a call in flight sees the registration, as it would if it read
\* the registry's items while its checks run.
Register_seen(func, name) ==
    /\ Len(ops) < MaxOps
    /\ LET r == register(_REGISTERED_CHECKS, func, name)
           fresh == /\ mode = "async"
                    /\ pc = "awaiting"
                    /\ r.ret.kind = "wrapper"
                    /\ r.ret.name \notin DOMAIN _REGISTERED_CHECKS
       IN  /\ _REGISTERED_CHECKS' = r.reg
           /\ returned' = r.ret
           /\ ops' = Append(ops, Op("register", func, <<>>, name, r.ret))
           /\ checks' = IF fresh
                          THEN Append(checks,
                                  [name |-> r.ret.name,
                                   fn |-> Fn(0, r.ret.async,
                                             Returns(<<>>))])
                          ELSE checks
           /\ st' = IF fresh THEN Append(st, "scheduled") ELSE st
           /\ where' = IF fresh THEN Append(where, "none") ELSE where
           /\ out' = IF fresh
                       THEN Append(out, [name |-> r.ret.name, errors |-> <<>>,
                                         coroutine |-> FALSE])
                       ELSE out
    /\ UNCHANGED <<silenced_check_ids, mode, pc, started, finished, result,
                   log, loop_blocked, history, response, signals, comparison,
                   retired, held, web>>

\* register(func, name=name), also `@register` when name is None;
\* register(name=name) and register() hand back a decorator.
Register(func, name) ==
    /\ Len(ops) < MaxOps
    /\ LET r == register(_REGISTERED_CHECKS, func, name)
       IN  /\ _REGISTERED_CHECKS' = r.reg
           /\ returned' = r.ret
           /\ ops' = Append(ops, Op("register", func, <<>>, name, r.ret))
    /\ UNCHANGED <<engine, response, signals, comparison, retired, held, web>>

\* The decorator handed back by register(name=...) is applied to a function:
\* functools.partial(register, name=name)(func).
Decorate(func) ==
    /\ Len(ops) < MaxOps
    /\ returned.kind = "decorator"
    /\ LET r == register(_REGISTERED_CHECKS, func, returned.name)
       IN  /\ _REGISTERED_CHECKS' = r.reg
           /\ returned' = r.ret
           /\ ops' = Append(ops, Op("decorate", func, <<>>, returned.name,
                                    r.ret))
    /\ UNCHANGED <<engine, response, signals, comparison, retired, held, web>>

RegisterPartial(func, args, name) ==
    /\ Len(ops) < MaxOps
    /\ LET r == register_partial(_REGISTERED_CHECKS, func, args, name)
       IN  /\ _REGISTERED_CHECKS' = r.reg
           /\ returned' = r.ret
           /\ ops' = Append(ops, Op("register_partial", func, args, name,
                                    r.ret))
    /\ UNCHANGED <<engine, response, signals, comparison, retired, held, web>>

ClearChecks ==
    /\ Len(ops) < MaxOps
    /\ _REGISTERED_CHECKS' = Cleared(_REGISTERED_CHECKS)
    /\ retired' = Retire(retired, _REGISTERED_CHECKS)
    /\ returned' = Nothing
    /\ ops' = Append(ops, Op("clear_checks", Nothing, <<>>, NoName, Nothing))
    /\ UNCHANGED <<engine, response, signals, comparison, held, web>>

\* get_checks(): the caller keeps the dict object it is handed.  `at` is
\* the number of registry calls made before.
GetChecks ==
    /\ held = Nothing
    /\ held' = [kind |-> "mapping", obj |-> CurrentObject, at |-> Len(ops)]
    /\ UNCHANGED <<engine, _REGISTERED_CHECKS, returned, ops, response,
                   signals, comparison, retired, web>>

NextRegistry ==
    \/ \E func \in Registrables \cup {Nothing}, name \in GivenNames :
          Register(func, name)
    \/ \E func \in Registrables : Decorate(func)
    \/ \E func \in Registrables, args \in BoundArgs, name \in GivenNames :
          RegisterPartial(func, args, name)
    \/ ClearChecks

SpecRegistry == InitRegistry /\ [][NextRegistry]_vars

\* ------------------------------------------------------------------------
\* Vocabulary of the registry properties
\* ------------------------------------------------------------------------
\* The name argument of call i; for the application of a decorator, the
\* name given to the register(name=...) call that made the decorator.
NameArg(i) ==
    IF ops[i].op = "decorate" THEN ops[i - 1].name ELSE ops[i].name

\* The name call i registers under: the given name or, when none is given,
\* the function's __name__ (NoName when it has none).
ExpectedName(i) ==
    IF NameArg(i) # NoName THEN NameArg(i) ELSE ops[i].func.__name__

\* Call i registers a function.
IsRegistration(i) ==
    /\ ops[i].op \in {"register", "decorate", "register_partial"}
    /\ ops[i].func # Nothing
    /\ ExpectedName(i) # NoName

\* Index of the last clear_checks() call, 0 when there was none.
LastClear ==
    SetMax({0} \cup { i \in 1..Len(ops) : ops[i].op = "clear_checks" })

RegistrationsSince(c) == { i \in (c + 1)..Len(ops) : IsRegistration(i) }

\* The last of the registrations `regs` made under the name n.
MostRecent(regs, n) == SetMax({ i \in regs : ExpectedName(i) = n })

\* get_checks() holds one entry per name registered by `regs`, the wrapper
\* returned by the most recent of them under that name.
HoldsExactly(regs) ==
    /\ DOMAIN get_checks = { ExpectedName(i) : i \in regs }
    /\ \A n \in DOMAIN get_checks :
          /\ get_checks[n] = ops[MostRecent(regs, n)].ret
          /\ get_checks[n].kind = "wrapper"

\* ------------------------------------------------------------------------
\* C11
\* ------------------------------------------------------------------------
\* C11: after any sequence of register and register_partial calls,
\* get_checks() has exactly one entry per registered name, the entry is the
\* wrapper made by the most recent registration under that name, the name is
\* the given name or else the function's __name__, and @register,
\* @register() and @register(name=...) all register the decorated function.
C11_OneEntryPerNameMostRecent ==
    LastClear = 0 =>
        /\ HoldsExactly(RegistrationsSince(0))
        /\ \A i \in RegistrationsSince(0) :
              ops[i].op \in {"register", "decorate"} =>
                  /\ ops[i].ret.kind = "wrapper"
                  /\ ops[i].ret.func = ops[i].func
                  /\ ops[i].ret.name = ExpectedName(i)

C11_Witness ==
    /\ LastClear = 0
    /\ Len(ops) = 3
    /\ ops[1].op = "register" /\ ops[1].func = Nothing /\ ops[1].name = "n1"
    /\ ops[2].op = "decorate"
    /\ ops[3].op = "register_partial" /\ ops[3].name = "n1"
    /\ ops[3].func # ops[2].func
    /\ DOMAIN get_checks = {"n1"}
    /\ get_checks["n1"] = ops[3].ret
    /\ get_checks["n1"] # ops[2].ret

\* ------------------------------------------------------------------------
\* C12
\* ------------------------------------------------------------------------
\* C12: after clear_checks(), get_checks() is empty whatever was registered
\* before, and after later registrations it holds exactly the checks
\* registered since the clear.
C12_ClearThenOnlyLater ==
    LastClear > 0 =>
        /\ LastClear = Len(ops) => get_checks = EmptyDict
        /\ HoldsExactly(RegistrationsSince(LastClear))

C12_Witness ==
    /\ Len(ops) = 3
    /\ IsRegistration(1)
    /\ ops[2].op = "clear_checks"
    /\ IsRegistration(3)
    /\ ExpectedName(3) # ExpectedName(1)
    /\ DOMAIN get_checks = {ExpectedName(3)}

\* The argument tuples a registered wrapper is called with in the properties
CallArgs == { <<>>, <<"z">> }

\* The calls that returned a wrapper
Wrapped == { i \in 1..Len(ops) : ops[i].ret.kind = "wrapper" }

\* What the callable registered by call i amounts to: the underlying
\* function applied to the arguments bound so far followed by `args`.
UnderlyingResult(i, args) ==
    [fn |-> ops[i].func.fn, args |-> ops[i].func.bound \o ops[i].args \o args]

\* ------------------------------------------------------------------------
\* C13
\* ------------------------------------------------------------------------
\* C13: the wrapper register stores and returns is a coroutine function iff
\* the registered callable, after unwrapping any nesting of
\* functools.partial, is a coroutine function; in both cases calling the
\* wrapper yields the result of the underlying callable called with the same
\* arguments.
C13_WrapperAsyncIffUnderlyingAsync ==
    \A i \in Wrapped :
        /\ ops[i].ret.async <=> ops[i].func.coro
        /\ \A a \in CallArgs :
              /\ ~Invoke(ops[i].ret, a).raised
              /\ ~Invoke(ops[i].ret, a).coroutine
              /\ Invoke(ops[i].ret, a).value = UnderlyingResult(i, a)

C13_Witness ==
    \E i, j \in Wrapped :
        /\ ops[i].ret.func.partials = 2
        /\ ops[i].ret.async
        /\ Invoke(ops[i].ret, <<"z">>).value.args = <<"x", "y", "z">>
        /\ ops[j].ret.func.partials = 0
        /\ ~ops[j].ret.async
        /\ get_checks[ops[i].ret.name] = ops[i].ret
        /\ get_checks[ops[j].ret.name] = ops[j].ret

\* ------------------------------------------------------------------------
\* C14
\* ------------------------------------------------------------------------
\* C14: register_partial(fn, *bound_args, name=None) registers, under name
\* or by default fn's __name__, a callable that invoked with no arguments
\* returns fn(*bound_args), with the arguments given at registration time.
C14_RegisterPartialBindsArgs ==
    \A i \in RegistrationsSince(0) :
        ops[i].op = "register_partial" =>
            /\ ops[i].ret.kind = "wrapper"
            /\ ops[i].ret.name = ExpectedName(i)
            /\ (i > LastClear
                  /\ i = MostRecent(RegistrationsSince(LastClear),
                                    ExpectedName(i)))
                  => get_checks[ExpectedName(i)] = ops[i].ret
            /\ ~Invoke(ops[i].ret, <<>>).raised
            /\ Invoke(ops[i].ret, <<>>).value
                  = CallFn(ops[i].func, ops[i].args).value

C14_Witness ==
    /\ Len(ops) = 2
    /\ ops[1].op = "register_partial" /\ ops[2].op = "register_partial"
    /\ ops[1].func = F /\ ops[2].func = F
    /\ ops[1].args = <<"y">> /\ ops[2].args = <<>>
    /\ ops[1].name = NoName /\ ops[2].name = "n1"
    /\ DOMAIN get_checks = {"f", "n1"}
    /\ Invoke(get_checks["f"], <<>>).value = [fn |-> "f", args |-> <<"y">>]
    /\ Invoke(get_checks["n1"], <<>>).value = [fn |-> "f", args |-> <<>>]

\* ------------------------------------------------------------------------
\* C15
\* ------------------------------------------------------------------------
\* The messages returned by the first k checks, in the order returned
RECURSIVE AllMessages(_)
AllMessages(k) == IF k = 0 THEN <<>> ELSE AllMessages(k - 1) \o Errs(k)

\* C15: every message a check returned, silenced or not, is logged exactly
\* once, at its own level with its id and text, and the returned
\* ChecksResults is the aggregate of the returned messages and the silenced
\* ids alone: no silenced message shows in it.
C15_EveryMessageLoggedOnce ==
    Returned =>
        /\ Len(log) = Len(AllMessages(N))
        /\ \A i \in 1..Len(log) :
              /\ log[i].level = AllMessages(N)[i].level
              /\ log[i].id = AllMessages(N)[i].id
              /\ log[i].msg = AllMessages(N)[i].msg
        /\ result.level = SetMax({0} \cup { ExpectedLevel(k) : k \in 1..N })
        /\ \A k \in 1..N :
              LastNamed(k) =>
                  result.statuses[checks[k].name]
                      = level_to_text(ExpectedLevel(k))
        /\ \A n \in DOMAIN result.details :
              DOMAIN result.details[n].messages \cap silenced_check_ids = {}

C15_Witness ==
    /\ Returned
    /\ N = 1
    /\ Errs(1) = <<AWarning, AnError>>
    /\ silenced_check_ids = {"a"}
    /\ log = <<AWarning, AnError>>
    /\ result.level = WARNING
    /\ DOMAIN result.details[checks[1].name].messages = {"b"}

\* ------------------------------------------------------------------------
\* C16
\* ------------------------------------------------------------------------
\* The integers level_to_text is tried on: -MaxLevelTried..MaxLevelTried
MaxLevelTried == 60

LevelsTried == (0 - MaxLevelTried)..MaxLevelTried

\* level_to_text gives each integer tried the label documented for it.
LabelsAsDocumented ==
    \A l \in LevelsTried :
        level_to_text(l) =
            CASE l = 0  -> "ok"
              [] l = 10 -> "debug"
              [] l = 20 -> "info"
              [] l = 30 -> "warning"
              [] l = 40 -> "error"
              [] l = 50 -> "critical"
              [] OTHER  -> "unknown"

\* C16: level_to_text maps 0, 10, 20, 30, 40, 50 to "ok", "debug", "info",
\* "warning", "error", "critical" and every other integer to "unknown"; a
\* message of an unmapped level (25) still counts in the numeric maximum of
\* its check and of the overall level.
C16_LevelToTextTotal ==
    /\ LabelsAsDocumented
    /\ Returned =>
          \A k \in 1..N :
              (\E i \in VisibleIdx(k) : Errs(k)[i].level = 25) =>
                  /\ result.level >= 25
                  /\ LastDetailed(k) =>
                        /\ result.details[checks[k].name].level >= 25
                        /\ ExpectedLevel(k) = 25 =>
                              /\ result.details[checks[k].name].level = 25
                              /\ result.details[checks[k].name].status
                                    = "unknown"
                  /\ (LastNamed(k) /\ ExpectedLevel(k) = 25) =>
                        result.statuses[checks[k].name] = "unknown"

C16_Witness ==
    /\ Returned
    /\ N = 2
    /\ Errs(1) = <<AnUnknown>>
    /\ Errs(2) = <<>>
    /\ silenced_check_ids = {}
    /\ result.level = 25
    /\ result.statuses[checks[1].name] = "unknown"
    /\ result.details[checks[1].name].level = 25

\* ------------------------------------------------------------------------
\* The message model: CheckMessage and its five kinds
\* ------------------------------------------------------------------------
\* hint=None, obj=None, id=None
Absent == "None"

Kinds == {"Debug", "Info", "Warning", "Error", "Critical"}

\* The class attribute `level` of each kind
KindLevel(cls) ==
    CASE cls = "Debug"    -> 10
      [] cls = "Info"     -> 20
      [] cls = "Warning"  -> WARNING
      [] cls = "Error"    -> ERROR
      [] cls = "Critical" -> 50

\* The classes an instance of cls is an instance of
Bases(cls) == {cls, "CheckMessage"}

\* CheckMessage.__init__ called on the kind cls: `if level:` sets the
\* instance's level only for a truthy argument (None and 0 leave the class
\* attribute in force).  A level argument of 0 stands for both.
Construct(cls, msg, level, hint, obj, id) ==
    [cls |-> cls, msg |-> msg,
     level |-> IF level # 0 THEN level ELSE KindLevel(cls),
     hint |-> hint, obj |-> obj, id |-> id]

\* isinstance(other, self.__class__)
IsInstance(other, cls) == cls \in Bases(other.cls)

\* CheckMessage.__eq__(self, other)
Eq(self, other) ==
    /\ IsInstance(other, self.cls)
    /\ self.level = other.level
    /\ self.msg = other.msg
    /\ self.hint = other.hint
    /\ self.obj = other.obj
    /\ self.id = other.id

\* CheckMessage.__ne__(self, other)
Ne(self, other) == ~Eq(self, other)

\* The messages compared: every kind, built with and without a level, a
\* hint, a subject and an id.
Messages ==
    { Construct(cls, msg, level, hint, obj, id) :
        cls \in Kinds, msg \in {"t1", "t2"}, level \in {0, ERROR},
        hint \in {Absent, "h"}, obj \in {Absent, "o"}, id \in {Absent, "a"} }

\* Two messages have been constructed and are about to be compared.
InitMessages ==
    /\ EngineIdle
    /\ _REGISTERED_CHECKS = EmptyDict
    /\ returned = Nothing
    /\ ops = <<>>
    /\ response = Nothing
    /\ signals = <<>>
    /\ retired = <<>>
    /\ held = Nothing
    /\ framework = "none"
    /\ WebIdle
    /\ comparison \in { [kind |-> "pending", a |-> a, b |-> b] :
                            a \in Messages, b \in Messages }

\* a == b, b == a and a != b are evaluated.
Compare ==
    /\ comparison.kind = "pending"
    /\ comparison' = [kind |-> "compared",
                      a |-> comparison.a, b |-> comparison.b,
                      eq |-> Eq(comparison.a, comparison.b),
                      eq_swapped |-> Eq(comparison.b, comparison.a),
                      ne |-> Ne(comparison.a, comparison.b)]
    /\ UNCHANGED <<engine, _REGISTERED_CHECKS, returned, ops, response,
                   signals, retired, held, web>>

NextMessages == Compare

SpecMessages == InitMessages /\ [][NextMessages]_vars

\* ------------------------------------------------------------------------
\* C17
\* ------------------------------------------------------------------------
Compared == comparison.kind = "compared"

\* level, text (msg), hint, subject (obj) and id of the two messages agree.
SameAttributes ==
    /\ comparison.a.level = comparison.b.level
    /\ comparison.a.msg = comparison.b.msg
    /\ comparison.a.hint = comparison.b.hint
    /\ comparison.a.obj = comparison.b.obj
    /\ comparison.a.id = comparison.b.id

\* C17: two check messages are equal iff their level, text, hint, subject
\* and id are all equal, whichever of the kinds Debug, Info, Warning, Error,
\* Critical each was constructed as; equality is symmetric.
C17_EqualIffFiveAttributes ==
    Compared =>
        /\ comparison.eq <=> SameAttributes
        /\ comparison.eq <=> comparison.eq_swapped

\* ------------------------------------------------------------------------
\* C18
\* ------------------------------------------------------------------------
\* The engine was called before with the same pairs and silenced ids,
\* through the same entry point as now.
CalledTwice == history # <<>> /\ history[1].mode = mode

Views == {"flask", "django", "sanic"}

\* What calling check k from the view gives.  Flask and Django call the
\* check and filter what it returns: the coroutine object of a coroutine
\* function is not iterable (TypeError).  Sanic awaits an awaitable result.
ViewOutcome(k) ==
    IF mode = "sanic" THEN checks[k].fn.body.tag
    ELSE IF checks[k].fn.coro THEN "raise" ELSE checks[k].fn.body.tag

\* _heartbeat_check_detail / heartbeat_check_detail
heartbeat_check_detail(errors, silenced) ==
    Detail(NotSilenced(errors, silenced),
           CheckLevel(NotSilenced(errors, silenced)))

\* The body of the view's loop: statuses, level and details after `detail`
\* was computed for the check called `name`.
HeartbeatLoopBody(locals, name, detail) ==
    [statuses |-> DictSet(locals.statuses, name, detail.status),
     level    |-> Max(locals.level, detail.level),
     details  |-> IF detail.level > 0
                    THEN DictSet(locals.details, name, detail)
                    ELSE locals.details]

\* payload = {'status': ..., 'checks': statuses, 'details': details}
Payload(locals) ==
    [status  |-> level_to_text(locals.level),
     checks  |-> locals.statuses,
     details |-> locals.details]

Signal(name, level) == [signal |-> name, level |-> level]

\* Variant: only an error or worse fails the heartbeat.
FlaskVerdict_error(level) ==
    IF level < ERROR
      THEN [status_code |-> 200, sent |-> <<Signal("heartbeat_passed", level)>>]
      ELSE [status_code |-> 500, sent |-> <<Signal("heartbeat_failed", level)>>]

\* Flask: `if level < checks.WARNING:` 200 and heartbeat_passed, else 500 and
\* heartbeat_failed; HeartbeatFailure carries the 500 response to the error
\* handler, which returns it.
FlaskVerdict(level) ==
    IF level < WARNING
      THEN [status_code |-> 200, sent |-> <<Signal("heartbeat_passed", level)>>]
      ELSE [status_code |-> 500, sent |-> <<Signal("heartbeat_failed", level)>>]

\* Django: `if level < checks.messages.WARNING:`
DjangoVerdict(level) ==
    IF level < WARNING
      THEN [status_code |-> 200, sent |-> <<Signal("heartbeat_passed", level)>>]
      ELSE [status_code |-> 500, sent |-> <<Signal("heartbeat_failed", level)>>]

\* Variant: a warning or worse fails the heartbeat.
SanicVerdict_warning(level) ==
    IF level < WARNING
      THEN [status_code |-> 200, sent |-> <<>>]
      ELSE [status_code |-> 500, sent |-> <<>>]

\* Sanic: `if level < checks.ERROR:`; the view sends no signal.
SanicVerdict(level) ==
    IF level < ERROR
      THEN [status_code |-> 200, sent |-> <<>>]
      ELSE [status_code |-> 500, sent |-> <<>>]

Verdict(view, level) ==
    CASE view = "flask"  -> FlaskVerdict(level)
      [] view = "django" -> DjangoVerdict(level)
      [] view = "sanic"  -> SanicVerdict(level)

engine_but_pc == <<checks, silenced_check_ids, mode, st, where, out, started,
                   finished, result, log, loop_blocked, history>>

\* The pairs a view iterates over: Flask and Sanic keep them in a dict keyed
\* by name, Django takes the list of the registered check functions.
InitViews ==
    /\ mode \in Views
    /\ checks \in SeqsUpTo(CheckPairs, MaxChecks)
    /\ mode \in {"flask", "sanic"} =>
          \A j, k \in 1..Len(checks) :
              j # k => checks[j].name # checks[k].name
    /\ silenced_check_ids \in SUBSET Ids
    /\ Entered(checks)
    /\ log = <<>>
    /\ loop_blocked = FALSE
    /\ history = <<>>
    /\ AsideInit

\* A heartbeat request arrives: details = {}, statuses = {}, level = 0.
HeartbeatEnter ==
    /\ mode \in Views
    /\ pc = "start"
    /\ pc' = "running"
    /\ result' = [details |-> EmptyDict, statuses |-> EmptyDict, level |-> 0]
    /\ UNCHANGED <<inputs, st, where, out, started, finished, log,
                   loop_blocked>>

\* The loop reaches check k and calls it.
HeartbeatCall(k) ==
    /\ mode \in Views
    /\ pc = "running"
    /\ st[k] = "idle"
    /\ \A j \in 1..(k - 1) : st[j] = "returned"
    /\ st' = [st EXCEPT ![k] = "running"]
    /\ where' = [where EXCEPT ![k] = IF mode = "sanic" THEN "loop" ELSE "caller"]
    /\ started' = Append(started, k)
    /\ UNCHANGED <<inputs, pc, out, finished, result, log, loop_blocked>>

\* Check k hands back its messages and the loop body records its detail, or
\* its exception leaves the view.  A check that never returns leaves no step.
HeartbeatDetail(k) ==
    /\ mode \in Views
    /\ pc = "running"
    /\ st[k] = "running"
    /\ ViewOutcome(k) # "hang"
    /\ finished' = Append(finished, k)
    /\ IF ViewOutcome(k) = "raise"
         THEN /\ st' = [st EXCEPT ![k] = "raised"]
              /\ pc' = "raised"
              /\ out' = out
              /\ result' = result
         ELSE /\ st' = [st EXCEPT ![k] = "returned"]
              /\ pc' = pc
              /\ out' = [out EXCEPT ![k].errors = checks[k].fn.body.errors]
              /\ result' = HeartbeatLoopBody(result, checks[k].name,
                              heartbeat_check_detail(checks[k].fn.body.errors,
                                                     silenced_check_ids))
    /\ UNCHANGED <<inputs, where, started, log, loop_blocked>>

\* The loop is over: the view picks the status code, sends its signal and
\* returns the response.
HeartbeatRespond ==
    /\ mode \in Views
    /\ pc = "running"
    /\ AllReturned
    /\ pc' = "done"
    /\ response' = [kind |-> "response",
                    status_code |-> Verdict(mode, result.level).status_code,
                    payload |-> Payload(result)]
    /\ signals' = signals \o Verdict(mode, result.level).sent
    /\ UNCHANGED <<engine_but_pc, _REGISTERED_CHECKS, returned, ops,
                   comparison, retired, held, web>>

NextViews ==
    \/ HeartbeatEnter
    \/ \E k \in 1..N : HeartbeatCall(k)
    \/ \E k \in 1..N : HeartbeatDetail(k)
    \/ HeartbeatRespond

SpecViews == InitViews /\ [][NextViews]_vars

\* ------------------------------------------------------------------------
\* Vocabulary of the view properties
\* ------------------------------------------------------------------------
\* The view has answered the request.
Responded == response # Nothing

\* The overall level after silencing: the maximum of 0 and the levels of
\* the non-silenced messages of all checks.
OverallLevel == SetMax({0} \cup { ExpectedLevel(k) : k \in 1..N })

\* Some check returned a non-silenced message of level l or worse.
SomeVisibleAtLeast(l) ==
    \E k \in 1..N : \E i \in VisibleIdx(k) : Errs(k)[i].level >= l

C23_OneAtATimeInOrder ==
    mode = "sync" =>
        /\ Len(started) <= N
        /\ \A i \in 1..Len(started) : started[i] = i
        /\ \A i \in 1..Len(finished) : finished[i] = i
        /\ Len(finished) <= Len(started)
        /\ Len(started) <= Len(finished) + 1
        /\ \A k \in 1..N :
              (k > 1 /\ st[k] # "idle") => st[k - 1] = "returned"
        /\ Returned => Len(started) = N /\ Len(finished) = N

C23_Witness ==
    /\ mode = "sync"
    /\ Returned
    /\ N = 2
    /\ Errs(1) # <<>>
    /\ started = <<1, 2>>
    /\ finished = <<1, 2>>
    /\ result.level > 0

\* ------------------------------------------------------------------------
\* C24
\* ------------------------------------------------------------------------
\* Position of the last non-silenced message of check k that has the id
LastWithId(k, id) == SetMax({ i \in VisibleIdx(k) : Errs(k)[i].id = id })

\* Check k returned two non-silenced messages of one id and different texts.
SharesAnId(k) ==
    \E i, j \in VisibleIdx(k) :
        /\ i < j
        /\ Errs(k)[i].id = Errs(k)[j].id
        /\ Errs(k)[i].msg # Errs(k)[j].msg

\* C24: when several non-silenced messages of one check share an id, the
\* check's messages map has a single entry for that id, holding the text of
\* the last such message in the order returned, while the check's level is
\* still the maximum over all of them.
C24_SharedIdLastTextWins ==
    Returned =>
        \A k \in 1..N :
            (LastDetailed(k) /\ SharesAnId(k)) =>
                LET d == result.details[checks[k].name]
                IN  /\ \A i \in VisibleIdx(k) :
                          d.messages[Errs(k)[i].id]
                              = Errs(k)[LastWithId(k, Errs(k)[i].id)].msg
                    /\ Cardinality(DOMAIN d.messages)
                          = Cardinality({ Errs(k)[i].id : i \in VisibleIdx(k) })
                    /\ d.level
                          = SetMax({ Errs(k)[i].level : i \in VisibleIdx(k) })

C24_Witness ==
    /\ Returned
    /\ N = 1
    /\ Errs(1) = <<AnError, AnUnknown>>
    /\ silenced_check_ids = {}
    /\ result.details[checks[1].name].messages = [x \in {"a"} |-> "t2"]
    /\ result.details[checks[1].name].level = ERROR

\* ------------------------------------------------------------------------
\* C25
\* ------------------------------------------------------------------------
\* Pair k has an earlier pair of the same name in the invocation.
Overwrites(k) == \E j \in 1..(k - 1) : checks[j].name = checks[k].name

\* The details entry d is the one pair k alone produces.
ReflectsCheck(d, k) ==
    /\ d.level = ExpectedLevel(k)
    /\ d.status = level_to_text(ExpectedLevel(k))
    /\ DOMAIN d.messages = { Errs(k)[i].id : i \in VisibleIdx(k) }
    /\ \A i \in VisibleIdx(k) :
          d.messages[Errs(k)[i].id] = Errs(k)[LastWithId(k, Errs(k)[i].id)].msg

\* C25 as claimed: when two pairs have the same name, statuses[name] and
\* details[name] both reflect only the later check, so a later check without
\* non-silenced messages leaves no details entry for the name.
C25_LaterPairOverwritesBoth ==
    Returned =>
        \A k \in 1..N :
            (LastNamed(k) /\ Overwrites(k)) =>
                /\ result.statuses[checks[k].name]
                      = level_to_text(ExpectedLevel(k))
                /\ IF ExpectedLevel(k) > 0
                   THEN /\ checks[k].name \in DOMAIN result.details
                        /\ ReflectsCheck(result.details[checks[k].name], k)
                   ELSE checks[k].name \notin DOMAIN result.details

\* C25 (amended): when two pairs have the same name, statuses[name] reflects
\* only the last pair of that name, and details[name] reflects only the last
\* pair of that name that returned a non-silenced message, in run_checks and
\* in run_checks_async alike; a later pair without non-silenced messages
\* leaves the earlier details entry in place.
C25_LaterPairOverwritesStatuses ==
    Returned =>
        \A k \in 1..N :
            /\ (LastNamed(k) /\ Overwrites(k)) =>
                  result.statuses[checks[k].name]
                      = level_to_text(ExpectedLevel(k))
            /\ (LastDetailed(k) /\ Cardinality(NamedIdx(checks[k].name)) > 1) =>
                  /\ checks[k].name \in DOMAIN result.details
                  /\ ReflectsCheck(result.details[checks[k].name], k)
            /\ (\A j \in NamedIdx(checks[k].name) : ExpectedLevel(j) = 0) =>
                  checks[k].name \notin DOMAIN result.details

C25_Witness ==
    /\ Returned
    /\ mode = "async"
    /\ N = 2
    /\ checks[1].name = checks[2].name
    /\ Errs(1) = <<AnError>>
    /\ Errs(2) = <<AnUnknown>>
    /\ silenced_check_ids = {}
    /\ result.statuses[checks[2].name] = "unknown"
    /\ result.details[checks[2].name].level = 25

\* ------------------------------------------------------------------------
\* C26
\* ------------------------------------------------------------------------
\* C26 as claimed: in every returned result, for every name in details,
\* details[name].level > 0 and
\* details[name].status = statuses[name] = level_to_text(details[name].level).
C26_DetailsAgreeWithStatuses ==
    Returned =>
        \A n \in DOMAIN result.details :
            /\ result.details[n].level > 0
            /\ result.details[n].status = result.statuses[n]
            /\ result.statuses[n] = level_to_text(result.details[n].level)

\* The last pair named n returned a non-silenced message.
LastOfNameDetailed(n) ==
    \E k \in NamedIdx(n) : LastNamed(k) /\ ExpectedLevel(k) > 0

\* C26 (amended): in every returned result, for every name in details,
\* details[name].level > 0, the name has a statuses entry and
\* details[name].status = level_to_text(details[name].level); and
\* details[name].status = statuses[name] whenever the last pair of that name
\* returned a non-silenced message, which is every case of an invocation with
\* pairwise distinct names.
C26_DetailsLabelledByOwnLevel ==
    Returned =>
        \A n \in DOMAIN result.details :
            /\ result.details[n].level > 0
            /\ n \in DOMAIN result.statuses
            /\ result.details[n].status = level_to_text(result.details[n].level)
            /\ LastOfNameDetailed(n) =>
                  result.details[n].status = result.statuses[n]
            /\ DistinctNames => LastOfNameDetailed(n)

C26_Witness ==
    /\ Returned
    /\ N = 2
    /\ DistinctNames
    /\ DOMAIN result.details = {"n1", "n2"}
    /\ result.details["n1"].level = ERROR
    /\ result.details["n2"].level = 25
    /\ result.statuses = [n \in {"n1", "n2"} |-> result.details[n].status]

\* ------------------------------------------------------------------------
\* C28
\* ------------------------------------------------------------------------
\* Some check of the call raised.
SomeCheckRaised == \E k \in 1..N : st[k] = "raised"

\* C28: within one run_checks or run_checks_async call no message is logged
\* before every check of the call has returned, and when any check raises no
\* message of any check is logged at all.
C28_NoLogBeforeAllReturned ==
    /\ log # <<>> => \A k \in 1..N : st[k] = "returned"
    /\ SomeCheckRaised => log = <<>>
    /\ (pc \in {"start", "running", "awaiting"}) => log = <<>>

C28_Witness ==
    /\ N = 2
    /\ st[1] = "returned"
    /\ out[1].errors = <<AnError>>
    /\ st[2] = "raised"
    /\ pc = "raised"
    /\ log = <<>>

\* ------------------------------------------------------------------------
\* C30
\* ------------------------------------------------------------------------
\* The payload of the same check results under the silenced set S.
SilencedWith(S) == _build_results_payload(out, S)

\* The level the payload loop computes for the k-th result under S.
LevelWith(k, S) == CheckLevel(NotSilenced(out[k].errors, S))

\* C30: silencing is monotone.  For silenced sets S and S' with S a subset
\* of S' and the same check results, every check's level and the overall
\* level with S' are at most those with S, the names in details with S' are
\* among those with S, and the names in statuses are the same.
C30_SilencingMonotone ==
    Returned =>
        \A S \in SUBSET silenced_check_ids :
            /\ \A k \in 1..N :
                  LevelWith(k, silenced_check_ids) <= LevelWith(k, S)
            /\ result.level <= SilencedWith(S).level
            /\ DOMAIN result.details \subseteq DOMAIN SilencedWith(S).details
            /\ DOMAIN result.statuses = DOMAIN SilencedWith(S).statuses
            /\ DistinctNames =>
                  \A n \in DOMAIN result.details :
                      /\ result.details[n].level
                            = LevelWith(CHOOSE k \in NamedIdx(n) : TRUE,
                                        silenced_check_ids)
                      /\ result.details[n].level
                            <= SilencedWith(S).details[n].level

C30_Witness ==
    /\ Returned
    /\ N = 2
    /\ DistinctNames
    /\ silenced_check_ids = {"a"}
    /\ Errs(1) = <<AWarning, AnError>>
    /\ Errs(2) = <<AnError>>
    /\ result.level = WARNING
    /\ SilencedWith({}).level = ERROR
    /\ DOMAIN result.details = {checks[1].name}
    /\ DOMAIN SilencedWith({}).details = NamesGiven

\* ------------------------------------------------------------------------
\* A caller that keeps the mapping get_checks() handed out
\* ------------------------------------------------------------------------
\* The registry calls made around one get_checks() call whose result the
\* caller keeps: registrations of the plain and of the coroutine function,
\* with and without a name, and clear_checks().
NextAlias ==
    \/ GetChecks
    \/ \E func \in {F, G}, name \in GivenNames : Register(func, name)
    \/ ClearChecks

SpecAlias == InitRegistry /\ [][NextAlias]_vars

\* ------------------------------------------------------------------------
\* C27
\* ------------------------------------------------------------------------
\* Index of the last clear_checks() call among the first a calls, 0 when
\* there was none.
PrevClear(a) ==
    SetMax({0} \cup { c \in 1..a : ops[c].op = "clear_checks" })

\* Index of the first clear_checks() call after the first a calls,
\* Len(ops) + 1 when there is none.
NextClear(a) ==
    LET later == { c \in (a + 1)..Len(ops) : ops[c].op = "clear_checks" }
    IN  IF later = {} THEN Len(ops) + 1
        ELSE CHOOSE c \in later : \A d \in later : c <= d

\* The mapping the registrations `regs` build: one entry per name, the
\* wrapper returned by the most recent of them under that name.
MappingOf(regs) ==
    [n \in { ExpectedName(i) : i \in regs } |-> ops[MostRecent(regs, n)].ret]

RegistrationsBetween(p, c) ==
    { j \in (p + 1)..(c - 1) : IsRegistration(j) }

\* C27: clear_checks() replaces the registry mapping instead of emptying it.
\* A mapping obtained from get_checks() before a clear keeps, after the
\* clear, every entry it had and never shows a registration made after the
\* clear; from the clear before it was obtained up to the next clear it is a
\* live view, showing every registration made in between, those made after
\* it was obtained included.
C27_ClearReplacesMapping ==
    held # Nothing =>
        LET p == PrevClear(held.at)
            c == NextClear(held.at)
        IN  /\ Deref(held) = MappingOf(RegistrationsBetween(p, c))
            /\ c > Len(ops) => Deref(held) = get_checks
            /\ c <= Len(ops) =>
                  /\ get_checks = MappingOf(RegistrationsSince(LastClear))
                  /\ \A j \in RegistrationsSince(c) :
                        \/ ExpectedName(j) \notin DOMAIN Deref(held)
                        \/ Deref(held)[ExpectedName(j)] # ops[j].ret
                        \/ \E i \in RegistrationsBetween(p, c) :
                              ops[i].ret = ops[j].ret

C27_Witness ==
    /\ held # Nothing
    /\ held.at = 0
    /\ Len(ops) = 3
    /\ ops[1].op = "register" /\ ops[1].func = F /\ ops[1].name = NoName
    /\ ops[2].op = "clear_checks"
    /\ ops[3].op = "register" /\ ops[3].func = G /\ ops[3].name = NoName
    /\ DOMAIN Deref(held) = {"f"}
    /\ DOMAIN get_checks = {"g"}

\* ------------------------------------------------------------------------
\* run_checks_async over the live items of the registry
\* ------------------------------------------------------------------------
\* What the registered functions do when they run as checks: the plain one
\* returns an Error, the coroutine function a Warning.
Body(func) ==
    IF func.fn = "f" THEN Returns(<<AnError>>) ELSE Returns(<<AWarning>>)

\* A registered wrapper as the engine sees it: a function (not a partial)
\* that is a coroutine function when the wrapper is the async one, and whose
\* call runs the registered function.
AsCheckFn(w) == Fn(0, w.async, Body(w.func))

\* The first registration since the last clear_checks() under the name n:
\* a dict keeps its keys in the order they were first inserted.
FirstRegistered(n) ==
    CHOOSE i \in RegistrationsSince(LastClear) :
        /\ ExpectedName(i) = n
        /\ \A j \in RegistrationsSince(LastClear) :
              ExpectedName(j) = n => i <= j

\* get_checks().items(), read now: the (name, wrapper) pairs in insertion
\* order.
LiveItems ==
    LET names == DOMAIN _REGISTERED_CHECKS
        order == CHOOSE s \in [1..Cardinality(names) -> names] :
                    \A i, j \in 1..Cardinality(names) :
                        i < j => FirstRegistered(s[i]) < FirstRegistered(s[j])
    IN  [k \in 1..Cardinality(names) |->
            [name |-> order[k], fn |-> AsCheckFn(_REGISTERED_CHECKS[order[k]])]]

\* run_checks_async(get_checks().items(), silenced): up to its first await
\* the call runs without interruption; unpacking the generator in
\* gather(*tasks) reads every item of the mapping and creates one
\* _run_check_async coroutine per pair, each holding its own (name, check).
RunChecksAsyncLive(silenced) ==
    /\ mode = "none"
    /\ held = Nothing
    /\ held' = [kind |-> "mapping", obj |-> CurrentObject, at |-> Len(ops)]
    /\ mode' = "async"
    /\ checks' = LiveItems
    /\ silenced_check_ids' = silenced
    /\ pc' = "awaiting"
    /\ st' = [k \in 1..Len(LiveItems) |-> "scheduled"]
    /\ where' = [k \in 1..Len(LiveItems) |-> "none"]
    /\ out' = [k \in 1..Len(LiveItems) |->
                 [name |-> LiveItems[k].name, errors |-> <<>>,
                  coroutine |-> FALSE]]
    /\ UNCHANGED <<started, finished, result, log, loop_blocked, history,
                   _REGISTERED_CHECKS, returned, ops, response, signals,
                   comparison, retired, web>>

\* The registry calls and the steps of the call in flight, in any order.
NextLive ==
    \/ \E silenced \in {{}, {"a"}} : RunChecksAsyncLive(silenced)
    \/ \E k \in 1..N : TaskStart(k)
    \/ \E k \in 1..N : TaskFinish(k)
    \/ GatherDone
    \/ \E func \in {F, G} : Register(func, NoName)
    \/ RegisterPartial(G, <<"y">>, "n1")
    \/ ClearChecks

SpecLive == InitRegistry /\ [][NextLive]_vars

\* ------------------------------------------------------------------------
\* C29
\* ------------------------------------------------------------------------
\* The registry as it was when the call in flight read it.
AtCall ==
    MappingOf(RegistrationsBetween(PrevClear(held.at), held.at + 1))

\* C29: run_checks_async fixes the set of pairs before any check body runs.
\* Called with the live items of the registry, the checks it runs and the
\* names its result reports are those the registry held when the call was
\* made, whatever register, register_partial or clear_checks call is made
\* while the checks are running.
C29_PairsFixedAtCall ==
    mode = "async" =>
        /\ N = Cardinality(DOMAIN AtCall)
        /\ { checks[k].name : k \in 1..N } = DOMAIN AtCall
        /\ \A k \in 1..N : checks[k].fn = AsCheckFn(AtCall[checks[k].name])
        /\ DOMAIN st = 1..N
        /\ Range(started) \subseteq 1..N
        /\ Returned =>
              /\ Range(started) = 1..N
              /\ DOMAIN result.statuses = DOMAIN AtCall
              /\ \A k \in 1..N :
                    result.statuses[checks[k].name]
                        = level_to_text(ExpectedLevel(k))

C29_Witness ==
    /\ mode = "async"
    /\ Returned
    /\ held.at = 1
    /\ Len(ops) = 3
    /\ ops[1].func = F
    /\ ops[2].op = "clear_checks"
    /\ ops[3].func = G
    /\ DOMAIN get_checks = {"g"}
    /\ DOMAIN result.statuses = {"f"}
    /\ result.level = ERROR

\* ------------------------------------------------------------------------
\* The request hooks and the request.summary log
\* ------------------------------------------------------------------------
MaxRequests == 2

Frameworks == {"django", "flask", "sanic"}

Paths == {"/", "/__version__", "/__heartbeat__", "/__lbheartbeat__"}

\* The paths DockerflowMiddleware.viewpatterns match.
viewpatterns == {"/__version__", "/__heartbeat__", "/__lbheartbeat__"}

\* header_name or "x-request-id"
HeaderName == "x-request-id"

\* The request headers: without the request-id header, with an empty one and
\* with a value.
Headers ==
    { EmptyDict, [h \in {HeaderName} |-> ""], [h \in {HeaderName} |-> "h1"] }

\* An id read from a header.
Text(v) == [kind |-> "text", value |-> v]

\* str(uuid.uuid4()), called while request r is handled: a value no other
\* call returns.
uuid4(r) == [kind |-> "uuid", n |-> r]

\* str(exception) of the exception a view raises.
ExceptionTexts == {"boom"}

\* get_or_generate_request_id(headers, header_name), called for request r
get_or_generate_request_id(headers, r) ==
    LET rid == IF HeaderName \in DOMAIN headers THEN headers[HeaderName]
               ELSE ""
    IN  IF rid = "" THEN uuid4(r) ELSE Text(rid)

\* A request as it arrives on worker thread w: no attribute set on it.
NewRequest(path, headers, w) ==
    [path |-> path, headers |-> headers, worker |-> w, at |-> "new",
     _id |-> Nothing, _has_exception |-> FALSE, exception |-> ""]

\* DockerflowMiddleware.process_request for request r with the thread's
\* ContextVar value ctx: a path of viewpatterns is answered by its view at
\* once (`raised`: the view raises and the exception leaves the middleware);
\* any other request gets its id through extract_request_id.
DjangoProcessRequest(req, r, ctx, raised) ==
    IF req.path \in viewpatterns
      THEN [req |-> [req EXCEPT !.at = IF raised THEN "aborted" ELSE "view"],
            ctx |-> ctx]
      ELSE LET rid == get_or_generate_request_id(req.headers, r)
           IN  [req |-> [req EXCEPT !._id = rid, !.at = "started"],
                ctx |-> rid]

\* Flask's _before_request and Sanic's _request_middleware:
\* g._request_id / request.ctx.id = str(uuid.uuid4()).
BeforeRequest(req, r, ctx) ==
    [req |-> [req EXCEPT !._id = uuid4(r), !.at = "started"], ctx |-> ctx]

\* The rid of the summary record built for request r: Django reads the
\* ContextVar of the thread, Flask g._request_id, Sanic request.ctx.id.
SummaryRid(r) ==
    IF framework = "django" THEN request_id_context[requests[r].worker]
    ELSE requests[r]._id

\* _build_extra_meta / summary_extra: errno 0 and the rid.
summary_extra(r) == [req |-> r, errno |-> 0, rid |-> SummaryRid(r)]

\* A record of the request.summary logger.
LogRecord(levelname, msg, extra) ==
    [levelname |-> levelname, msg |-> msg, req |-> extra.req,
     errno |-> extra.errno, rid |-> extra.rid]

\* Variant: the response hook logs whatever happened before.
SummaryOnResponse_always(r) == << LogRecord("INFO", "", summary_extra(r)) >>

\* process_response / _after_request / _response_middleware:
\* summary_logger.info("", extra=extra) unless the exception hook ran.
SummaryOnResponse(r) ==
    IF requests[r]._has_exception THEN <<>>
    ELSE << LogRecord("INFO", "", summary_extra(r)) >>

\* process_exception / _got_request_exception / _exception_handler:
\* extra["errno"] = 500; summary_logger.error(str(exception), extra=extra)
SummaryOnException(r, text) ==
    << LogRecord("ERROR", text, [summary_extra(r) EXCEPT !.errno = 500]) >>

\* The worker thread w handles no request.
WorkerFree(w) ==
    \A r \in 1..Len(requests) :
        requests[r].worker = w => requests[r].at \in {"responded", "aborted"}

notweb == <<engine, _REGISTERED_CHECKS, returned, ops, response, signals,
            comparison, retired, held, framework>>

InitRequests ==
    /\ EngineIdle
    /\ _REGISTERED_CHECKS = EmptyDict
    /\ returned = Nothing
    /\ ops = <<>>
    /\ response = Nothing
    /\ signals = <<>>
    /\ comparison = Nothing
    /\ retired = <<>>
    /\ held = Nothing
    /\ framework \in Frameworks
    /\ WebIdle

\* A request arrives on a free worker thread and the request hook runs.
ProcessRequest(path, headers, w, raised) ==
    /\ Len(requests) < MaxRequests
    /\ WorkerFree(w)
    /\ LET r == Len(requests) + 1
           p == IF framework = "django"
                  THEN DjangoProcessRequest(NewRequest(path, headers, w), r,
                                            request_id_context[w], raised)
                  ELSE BeforeRequest(NewRequest(path, headers, w), r,
                                     request_id_context[w])
       IN  /\ requests' = Append(requests, p.req)
           /\ request_id_context' = [request_id_context EXCEPT ![w] = p.ctx]
    /\ UNCHANGED <<notweb, summary>>

\* The view of request r raised and the framework calls the exception hook.
ProcessException(r, text) ==
    /\ requests[r].at = "started"
    /\ summary' = summary \o SummaryOnException(r, text)
    /\ requests' = [requests EXCEPT ![r]._has_exception = TRUE,
                                    ![r].exception = text,
                                    ![r].at = "excepted"]
    /\ UNCHANGED <<notweb, request_id_context>>

\* The framework has a response for request r and calls the response hook.
ProcessResponse(r) ==
    /\ requests[r].at \in {"started", "view", "excepted"}
    /\ summary' = summary \o SummaryOnResponse(r)
    /\ requests' = [requests EXCEPT ![r].at = "responded"]
    /\ UNCHANGED <<notweb, request_id_context>>

NextRequests ==
    \/ \E path \in Paths, headers \in Headers, w \in Workers,
          raised \in BOOLEAN : ProcessRequest(path, headers, w, raised)
    \/ \E r \in 1..Len(requests), text \in ExceptionTexts :
          ProcessException(r, text)
    \/ \E r \in 1..Len(requests) : ProcessResponse(r)

SpecRequests == InitRequests /\ [][NextRequests]_vars

\* ------------------------------------------------------------------------
\* C21
\* ------------------------------------------------------------------------
\* The positions of the summary records of request r.
RecordsOf(r) == { i \in 1..Len(summary) : summary[i].req = r }

\* C21: every request that went through the request hooks (request start,
\* optionally the exception hook, then the response hook) has exactly one
\* request.summary record: INFO with errno 0 when no exception was handled,
\* otherwise ERROR with errno 500 and the exception's text, and no INFO
\* record.
C21_OneSummaryPerRequest ==
    \A r \in 1..Len(requests) :
        /\ requests[r].at \in {"new", "started", "view", "aborted"} =>
              RecordsOf(r) = {}
        /\ requests[r].at \in {"excepted", "responded"} =>
              \E i \in RecordsOf(r) :
                  /\ RecordsOf(r) = {i}
                  /\ IF requests[r].exception = ""
                       THEN /\ summary[i].levelname = "INFO"
                            /\ summary[i].errno = 0
                            /\ summary[i].msg = ""
                       ELSE /\ summary[i].levelname = "ERROR"
                            /\ summary[i].errno = 500
                            /\ summary[i].msg = requests[r].exception

C21_Witness ==
    /\ Len(requests) = 2
    /\ requests[1].at = "responded" /\ requests[1].exception = "boom"
    /\ requests[2].at = "responded" /\ requests[2].exception = ""
    /\ Len(summary) = 2
    /\ summary[1].levelname = "ERROR" /\ summary[1].req = 1
    /\ summary[2].levelname = "INFO" /\ summary[2].req = 2

\* ------------------------------------------------------------------------
\* C22
\* ------------------------------------------------------------------------
\* The request id of request r: the value of its request-id header when the
\* header is present and not empty, otherwise the id generated for r.
RequestIdOf(r) ==
    IF /\ HeaderName \in DOMAIN requests[r].headers
       /\ requests[r].headers[HeaderName] # ""
      THEN Text(requests[r].headers[HeaderName])
      ELSE uuid4(r)

\* C22: for every request handled by the Django DockerflowMiddleware, the
\* requests to /__version__, /__heartbeat__ and /__lbheartbeat__ included,
\* the rid of its request.summary record is the request id of that request
\* and never the id of another request.
C22_RidIsOwnRequestId ==
    framework = "django" =>
        \A i \in 1..Len(summary) : summary[i].rid = RequestIdOf(summary[i].req)
====
